---- MODULE Spec2Model ----
(***************************************************************************)
(* Model of the OCR pipeline of kilka/Kuberlab:                            *)
(*   - the ingestion endpoint POST /ocr   (src/app/api/main.py)            *)
(*   - the queue consumer                 (src/app/worker/main.py)         *)
(* The blob store, the table (status) store and the Service Bus broker are *)
(* external collaborators.  They are modelled by their call contract: a    *)
(* call either takes effect or raises, a peek-lock lease can run out, and  *)
(* a message's delivery_count is 0 on its first delivery and grows by one  *)
(* with every abandon or lease expiry.                                     *)
(***************************************************************************)
EXTENDS Integers, Sequences, FiniteSets, TLC

\* ------------------------------------------------------------------ bounds
\* Number of POST /ocr requests issued over a run.
MaxReqs == 2
\* Number of distinct file contents a request may carry.
MaxContents == 2
\* Number of messages in the work queue when the worker starts.
MaxMsgs == 2
\* Deliveries of one message after which its lease expiry is no longer explored.
MaxDeliveries == 2
\* Environment faults explored in one run: a store call or a broker call that
\* raises, a lease that runs out while its holder is still at work.
MaxFaults == 1
MaxGrants == 2
MaxTime == 2
\* Calls of POST /ocr/confirm-upload made over a run, for whichever upload urls.
MaxConfirms == 2

\* ------------------------------------------------- configuration (os.getenv)
\* The deployment's settings, read from the environment with defaults 3, 3, 3.
\* Chosen here with more executor threads than engine handles, so that threads
\* compete for the pool, and with one retry, so that the terminal path is short.
MAX_RETRIES == 1
CONCURRENT_WORKERS == 2
TESSERACT_POOL_SIZE == 1

Reqs == 1..MaxReqs
\* The contents create_ocr_job accepts, and the request bodies a client may send:
\* body 0 is the empty file and body MaxContents + 1 is an oversized one.
Contents == 1..MaxContents
Bodies == 0..(MaxContents + 1)

ALLOWED_EXTENSIONS == {<<".", "j", "p", "g">>, <<".", "j", "p", "e", "g">>,
                       <<".", "p", "n", "g">>}
MAX_FILE_SIZE == 10 * 1024 * 1024

\* len(content): the empty body, small bodies, one of exactly MAX_FILE_SIZE bytes
\* (the largest content accepted) and one a byte longer.
ContentLength(c) == IF c < MaxContents THEN c ELSE MAX_FILE_SIZE + (c - MaxContents)

\* File names as sequences of characters.
FilenameList == << <<"a", ".", "j", "p", "g">>, <<"a", ".", "P", "N", "G">>,
                   <<"a", ".", "g", "i", "f">>, <<"a">> >>
Filenames == {FilenameList[i] : i \in 1..Len(FilenameList)}

\* str.lower() on the characters that occur.
LowerChar(ch) ==
    CASE ch = "J" -> "j" [] ch = "P" -> "p" [] ch = "G" -> "g" [] ch = "N" -> "n"
      [] ch = "E" -> "e" [] ch = "I" -> "i" [] ch = "F" -> "f" [] ch = "A" -> "a"
      [] OTHER -> ch
Lower(str) == [i \in 1..Len(str) |-> LowerChar(str[i])]

\* os.path.splitext(filename)[1]: from the last dot on, unless only dots precede it.
Splitext(f) ==
    LET dots == {i \in 1..Len(f) : f[i] = "."}
    IN IF dots = {} THEN <<>>
       ELSE LET k == CHOOSE i \in dots : \A j \in dots : j <= i
            IN IF \A j \in 1..(k - 1) : f[j] = "." THEN <<>>
               ELSE SubSeq(f, k, Len(f))

\* The extension the generated worker-side fixtures carry.
Jpg == Lower(Splitext(<<"a", ".", "j", "p", "g">>))
\* ThreadPoolExecutor(max_workers=CONCURRENT_WORKERS): the threads that run tasks.
Threads == 1..CONCURRENT_WORKERS
\* The threads the process could start for the executor: one more than
\* max_workers, which the executor never starts (see Start).
ExecutorThreads == 1..(CONCURRENT_WORKERS + 1)

\* A field that is absent from an entity / an argument left at None.
None == "None"
NoEntity == [status |-> "absent", error |-> None, result_blob |-> None]
NoTask == [msg |-> 0, dc |-> 0]

\* Python truthiness of an Optional[str]: None and "" are both falsy.
Truthy(s) == s # None /\ s # ""

\* hashlib.sha256(content).hexdigest(): an injective fingerprint of the content.
Sha256(c) == 1000 + c
JobIds == {Sha256(c) : c \in Contents}

\* utcnow() at the instants the run can see, and
\* hashlib.sha256(f"{filename}_{now.isoformat()}".encode()).hexdigest(): an
\* injective fingerprint of the file name and the timestamp, apart from every
\* fingerprint of a content.
Grants == 1..MaxGrants
Calls == 1..MaxConfirms
Times == 1..MaxTime
Sha256Text(f, now) ==
    2000 + 100 * (CHOOSE i \in 1..Len(FilenameList) : FilenameList[i] = f) + now
DirectIds == {Sha256Text(f, now) : f \in Filenames, now \in Times}

\* f"{job_id}{file_extension}" and f"{job_id}.txt"
BlobName(job, ext) == <<job, ext>>
ResultBlobName(job) == <<job, ".txt">>

VARIABLES
    faultLimit, \* the number of environment faults the run may see
    faults,     \* history: the environment faults so far, by kind
    apiSb,      \* api: sb_client is not None
    apiBlob,    \* api: blob_service_client is not None
    apiTable,   \* api: table_service_client is not None
    req,        \* api: the POST /ocr calls, each with its position and response
    got,        \* api: the latest call of GET /ocr/{job_id}/result
    clock,      \* api: the latest value utcnow() returned
    grant,      \* api: the upload urls given out
    confirm,    \* api: the calls of POST /ocr/confirm-upload, each with its position
    direct,     \* content store, container "uploads": bodies put under a SAS url
    table,      \* status store: job id -> entity
    uploads,    \* content store, container "uploads": blob names present
    results,    \* content store, container "results": blob names present
    blobWrites, \* history: upload_blob calls that took effect, per job id
    msgs,       \* broker: the messages sent to the work queue, in send order
    poison,     \* broker: messages published to the poison queue
    running,    \* worker: the global running flag
    mainPc,     \* worker: position of main()'s loop
    batch,      \* worker: messages received and not yet submitted to the executor
    futures,    \* worker: the futures of the current batch
    workQueue,  \* worker: the executor's queue of submitted, unstarted tasks
    thread,     \* worker: the executor's threads
    pool,       \* worker: number of handles in tesseract_pool
    attempts,   \* history: process_message runs started, per message
    routed,     \* history: messages for which send_to_poison_queue was called
    receiverOpen \* worker: sb_client and the receiver got from it are not closed

vars == <<faultLimit, faults, apiSb, apiBlob, apiTable, req, got, clock, grant, confirm,
          direct,
          table, uploads, results, blobWrites, msgs,
          poison, running, mainPc, batch, futures, workQueue, thread, pool,
          attempts, routed, receiverOpen>>

directVars == <<clock, grant, confirm, direct>>

workerVars == <<poison, running, mainPc, batch, futures, workQueue, thread, pool,
                attempts, routed, receiverOpen, results>>

\* Outcomes a collaborator call can have: it takes effect (TRUE) or, while the
\* run's fault budget lasts, it raises (FALSE).
NoFaults == [store |-> 0, broker |-> 0, lease |-> 0]
Budget == faults.store + faults.broker + faults.lease < faultLimit
Outcomes == IF Budget THEN {TRUE, FALSE} ELSE {TRUE}
StoreCall(ok) == IF ok THEN faults ELSE [faults EXCEPT !.store = @ + 1]
BrokerCall(ok) == IF ok THEN faults ELSE [faults EXCEPT !.broker = @ + 1]

\* A request: its position in create_ocr_job, its input, its response (code 0: none
\* yet) and what it did: the requests that had returned when it began, whether its
\* lookup raised for another reason than not-found, and which writes took effect.
IdleReq == [pc |-> "idle", filename |-> <<>>, body |-> 0, ext |-> <<>>,
            content |-> 0, job |-> 0, code |-> 0, job_id |-> 0,
            status |-> None, after |-> {}, lookupFailed |-> FALSE,
            uploaded |-> FALSE, sent |-> FALSE, created |-> FALSE]
\* No GET /ocr/{job_id}/result received yet.  A call holds the entity its
\* get_entity returned and stands before download_blob ("download") or has
\* answered.
NoGet == [pc |-> "idle", job |-> 0, entity |-> NoEntity, code |-> 0, text |-> None]
\* An upload url: not asked for, refused or granted, with the body last put under
\* it (-1: none).
IdleGrant == [pc |-> "idle", filename |-> <<>>, job |-> 0, code |-> 0, body |-> -1]
\* A confirm_upload call: not made yet, at one of its remote calls, or answered
\* ("done"); the upload url whose job id and file name it was called with, and
\* its answer (0: none yet).
IdleCall == [pc |-> "idle", grant |-> 0, code |-> 0, status |-> None]
IdleThread == [pc |-> "idle", task |-> NoTask, holding |-> FALSE, err |-> None,
               entity |-> NoEntity]

\* No upload url has been asked for, nothing was put under one.
DirectStart ==
    /\ clock = 1
    /\ grant = [g \in Grants |-> IdleGrant]
    /\ confirm = [c \in Calls |-> IdleCall]
    /\ direct = {}

\* The worker process after initialize_clients(): running, the loop not yet
\* entered, the executor idle, TESSERACT_POOL_SIZE handles put into the pool.
WorkerStart ==
    /\ poison = <<>>
    /\ results = {}
    /\ running = TRUE
    /\ mainPc = "loop"
    /\ batch = <<>>
    /\ futures = {}
    /\ workQueue = <<>>
    /\ thread = [t \in ExecutorThreads |-> IdleThread]
    /\ pool = TESSERACT_POOL_SIZE
    /\ routed = {}
    /\ receiverOpen = TRUE

\* startup_event sets blob_service_client, then table_service_client, inside one
\* try: both are None when the connection string is missing or the first
\* constructor raises, the table client alone is None when the second raises.
StorageClients ==
    /\ apiBlob \in BOOLEAN
    /\ apiTable \in BOOLEAN
    /\ apiTable => apiBlob

\* The API process after startup_event(), no request received yet; the stores and
\* the queue are empty.  startup_event only warns when a connection string is
\* missing or a constructor raises, so any client may be None.
InitApi ==
    /\ faultLimit = MaxFaults
    /\ faults = NoFaults
    /\ apiSb \in BOOLEAN
    /\ StorageClients
    /\ req = [r \in Reqs |-> IdleReq]
    /\ got = NoGet
    /\ DirectStart
    /\ table = [j \in JobIds |-> NoEntity]
    /\ uploads = {}
    /\ blobWrites = [j \in JobIds |-> 0]
    /\ msgs = <<>>
    /\ attempts = <<>>
    /\ WorkerStart

\* ------------------------------------------------------------ POST /ocr
\* A queued entity as create_ocr_job builds it (status, no error, no result).
QueuedEntity == [status |-> "queued", error |-> None, result_blob |-> None]

\* The request body json.dumps(message_body) with message_id = job_id, as the
\* broker keeps it: available, never delivered.
NewMessage(job, ext) ==
    [id |-> job, job |-> job, blob |-> BlobName(job, ext), state |-> "avail", dc |-> 0]

\* A response that reports "queued" whatever status it is given.
RespondQueued(r, code, status) ==
    [req EXCEPT ![r].pc = "done", ![r].code = code, ![r].status = "queued",
                ![r].job_id = IF code \in {400, 500} THEN 0 ELSE req[r].job]

\* The response: {"job_id": job_id, "status": status} with 200 or 202, or an
\* HTTPException(500) that names no job.
Respond(r, code, status) ==
    [req EXCEPT ![r].pc = "done", ![r].code = code, ![r].status = status,
                ![r].job_id = IF code \in {400, 500} THEN 0 ELSE req[r].job]

\* table_client.get_entity(...) returns the entity, or raises (not found, fault).
EntityFound(tbl, job, ok) == ok /\ tbl[job] # NoEntity

\* A create that overwrites: what upsert_entity would do in create_entity's place.
EntityUpserted(tbl, job, ok) == ok

\* table_client.create_entity(entity) inserts, or raises (conflict, fault).
EntityInserted(tbl, job, ok) == ok /\ tbl[job] = NoEntity

\* A validation that checks the size only.
RejectedBySizeOnly(f, c) ==
    \/ ContentLength(c) > MAX_FILE_SIZE
    \/ ContentLength(c) = 0

\* The three checks that raise HTTPException(400): extension, size ceiling, empty.
Rejected(f, c) ==
    \/ Lower(Splitext(f)) \notin ALLOWED_EXTENSIONS
    \/ ContentLength(c) > MAX_FILE_SIZE
    \/ ContentLength(c) = 0

\* The request arrives: the extension and size checks answer 400, or they pass
\* and job_id = sha256(content).
CreateOcrJob(r) ==
    /\ req[r].pc = "idle"
    /\ \E f \in Filenames, c \in Bodies :
         LET arrived == [req EXCEPT ![r].filename = f, ![r].body = c] IN
         IF Rejected(f, c)
         THEN req' = [arrived EXCEPT ![r].pc = "done", ![r].code = 400]
         ELSE req' = [arrived EXCEPT ![r].pc = "lookup", ![r].content = c,
                            ![r].ext = Lower(Splitext(f)),
                            ![r].job = Sha256(c),
                            ![r].after = {q \in Reqs : req[q].pc = "done"}]
    /\ UNCHANGED directVars
    /\ UNCHANGED <<got, faultLimit, faults, apiSb, apiBlob, apiTable, table, uploads, blobWrites, msgs>>
    /\ UNCHANGED workerVars

\* get_entity: an entity that exists is returned with its stored status; any
\* exception (not found, or the store failing) falls through to creation.
Lookup(r) ==
    /\ req[r].pc = "lookup"
    /\ IF apiTable
       THEN \E ok \in Outcomes :
              /\ faults' = StoreCall(ok)
              /\ IF EntityFound(table, req[r].job, ok)
                 THEN req' = Respond(r, 200, table[req[r].job].status)
                 ELSE req' = [req EXCEPT ![r].pc = "upload",
                                         ![r].lookupFailed = ~ok]
       ELSE /\ req' = [req EXCEPT ![r].pc = "upload"]
            /\ UNCHANGED faults
    /\ UNCHANGED directVars
    /\ UNCHANGED <<got, faultLimit, apiSb, apiBlob, apiTable, table, uploads, blobWrites, msgs>>
    /\ UNCHANGED workerVars

\* An upload whose failure is logged only, the request going on to the send.
UploadTolerant(r) ==
    /\ req[r].pc = "upload"
    /\ IF apiBlob
       THEN \E ok \in Outcomes :
              /\ faults' = StoreCall(ok)
              /\ IF ok
                 THEN /\ uploads' = uploads \cup {BlobName(req[r].job, req[r].ext)}
                      /\ blobWrites' = [blobWrites EXCEPT ![req[r].job] = @ + 1]
                      /\ req' = [req EXCEPT ![r].pc = "send", ![r].uploaded = TRUE]
                 ELSE /\ req' = [req EXCEPT ![r].pc = "send"]
                      /\ UNCHANGED <<uploads, blobWrites>>
       ELSE /\ req' = [req EXCEPT ![r].pc = "send"]
            /\ UNCHANGED <<faults, uploads, blobWrites>>
    /\ UNCHANGED directVars
    /\ UNCHANGED <<got, faultLimit, apiSb, apiBlob, apiTable, table, msgs>>
    /\ UNCHANGED <<poison, running, mainPc, batch, futures, workQueue, thread, pool,
                   attempts, routed, receiverOpen, results>>

\* upload_blob(content, overwrite=True); a failure answers 500.
Upload(r) ==
    /\ req[r].pc = "upload"
    /\ IF apiBlob
       THEN \E ok \in Outcomes :
              /\ faults' = StoreCall(ok)
              /\ IF ok
                 THEN /\ uploads' = uploads \cup {BlobName(req[r].job, req[r].ext)}
                      /\ blobWrites' = [blobWrites EXCEPT ![req[r].job] = @ + 1]
                      /\ req' = [req EXCEPT ![r].pc = "send", ![r].uploaded = TRUE]
                 ELSE /\ req' = Respond(r, 500, None)
                      /\ UNCHANGED <<uploads, blobWrites>>
       ELSE /\ req' = [req EXCEPT ![r].pc = "send"]
            /\ UNCHANGED <<faults, uploads, blobWrites>>
    /\ UNCHANGED directVars
    /\ UNCHANGED <<got, faultLimit, apiSb, apiBlob, apiTable, table, msgs>>
    /\ UNCHANGED <<poison, running, mainPc, batch, futures, workQueue, thread, pool,
                   attempts, routed, receiverOpen, results>>

\* sender.send_messages(message); a failure answers 500.
Send(r) ==
    /\ req[r].pc = "send"
    /\ IF apiSb
       THEN \E ok \in Outcomes :
              /\ faults' = BrokerCall(ok)
              /\ IF ok
                 THEN /\ msgs' = Append(msgs, NewMessage(req[r].job, req[r].ext))
                      /\ attempts' = Append(attempts, 0)
                      /\ req' = [req EXCEPT ![r].pc = "create", ![r].sent = TRUE]
                 ELSE /\ req' = Respond(r, 500, None)
                      /\ UNCHANGED <<msgs, attempts>>
       ELSE /\ req' = [req EXCEPT ![r].pc = "create"]
            /\ UNCHANGED <<faults, msgs, attempts>>
    /\ UNCHANGED directVars
    /\ UNCHANGED <<got, faultLimit, apiSb, apiBlob, apiTable, table, uploads, blobWrites>>
    /\ UNCHANGED <<poison, running, mainPc, batch, futures, workQueue, thread, pool,
                   routed, receiverOpen, results>>

\* create_entity: takes effect when no entity has the key; a failure (conflict or
\* store fault) is logged and the request still answers 202 queued.
Create(r) ==
    /\ req[r].pc = "create"
    /\ IF apiTable
       THEN \E ok \in Outcomes :
              /\ faults' = StoreCall(ok)
              /\ IF EntityInserted(table, req[r].job, ok)
                 THEN /\ table' = [table EXCEPT ![req[r].job] = QueuedEntity]
                      /\ req' = [Respond(r, 202, "queued") EXCEPT ![r].created = TRUE]
                 ELSE /\ req' = Respond(r, 202, "queued")
                      /\ UNCHANGED table
       ELSE /\ req' = Respond(r, 202, "queued")
            /\ UNCHANGED <<faults, table>>
    /\ UNCHANGED directVars
    /\ UNCHANGED <<got, faultLimit, apiSb, apiBlob, apiTable, uploads, blobWrites, msgs>>
    /\ UNCHANGED workerVars

ApiNext == \E r \in Reqs :
    CreateOcrJob(r) \/ Lookup(r) \/ Upload(r) \/ Send(r) \/ Create(r)

\* The ingestion endpoint on its own: requests arrive and interleave; no worker runs.
SpecApi == InitApi /\ [][ApiNext]_vars

\* ------------------------------------------ update_job_status (the worker)
\* update_job_status, first call: table_client.get_entity(...) returns a copy of
\* the stored entity, or raises (not found, store fault): NoEntity, and
\* update_job_status logs and returns.
GetEntity(tbl, job, ok) == IF ok THEN tbl[job] ELSE NoEntity

\* update_job_status, between its two calls: the copy takes the new status, and
\* error / result_blob when the argument is truthy; what else it read stays in it.
UpdateJobStatus(entity, status, error, result_blob) ==
    [status |-> status,
     error |-> IF Truthy(error) THEN error ELSE entity.error,
     result_blob |-> IF Truthy(result_blob) THEN result_blob ELSE entity.result_blob]

\* update_job_status, second call: table_client.update_entity(entity,
\* mode="merge") writes every property of the copy over the stored entity, with
\* no etag; properties the copy lacks are kept.  A call that raises writes nothing.
UpdateEntity(tbl, job, entity, ok) ==
    IF ~ok \/ tbl[job] = NoEntity
    THEN tbl
    ELSE [tbl EXCEPT ![job] =
            [status |-> entity.status,
             error |-> IF entity.error # None THEN entity.error ELSE @.error,
             result_blob |-> IF entity.result_blob # None THEN entity.result_blob
                             ELSE @.result_blob]]

\* ------------------------------------------------ GET /ocr/{job_id}/result
\* result_data.decode("utf-8") of what save_result wrote under the blob name.
TextOf(blob) == <<"text", blob>>

\* A handler that looks at result_blob only.
ResultCodeAnyStatus(e) == IF ~Truthy(e.result_blob) THEN 404 ELSE 200

\* The two checks on the entity: 400 unless status is completed, 404 without a
\* result_blob, else the blob is fetched.
ResultCode(e) ==
    IF e.status # "completed" THEN 400
    ELSE IF ~Truthy(e.result_blob) THEN 404
    ELSE 200

\* get_job_result up to its second remote call: 503 without one of the storage
\* clients; get_entity (a missing entity or a store fault answers 500), the
\* checks on the entity returned; the handler then holds that entity and goes on
\* to download_blob.
GetJobResult(j) ==
    /\ got.pc = "idle"
    /\ IF ~apiTable \/ ~apiBlob
       THEN /\ got' = [NoGet EXCEPT !.job = j, !.code = 503]
            /\ UNCHANGED faults
       ELSE \E ok \in Outcomes :
              LET entity == table[j] IN
              /\ faults' = StoreCall(ok)
              /\ got' = IF ~EntityFound(table, j, ok)
                        THEN [NoGet EXCEPT !.job = j, !.code = 500]
                        ELSE IF ResultCode(entity) # 200
                        THEN [NoGet EXCEPT !.job = j, !.entity = entity,
                                           !.code = ResultCode(entity)]
                        ELSE [NoGet EXCEPT !.job = j, !.entity = entity,
                                           !.pc = "download"]
    /\ UNCHANGED directVars
    /\ UNCHANGED <<faultLimit, apiSb, apiBlob, apiTable, req, table, uploads, blobWrites, msgs>>
    /\ UNCHANGED workerVars

\* blob_client.download_blob().readall() under the result_blob of the entity the
\* handler read, whatever the table holds by now: the text is returned with
\* 200; a call that raises (a missing blob, a store fault) answers 500.
DownloadBlob ==
    /\ got.pc = "download"
    /\ \E ok \in Outcomes :
         /\ faults' = StoreCall(ok)
         /\ got' = IF ok /\ got.entity.result_blob \in results
                   THEN [got EXCEPT !.pc = "idle", !.code = 200,
                                    !.text = TextOf(got.entity.result_blob)]
                   ELSE [got EXCEPT !.pc = "idle", !.code = 500]
    /\ UNCHANGED directVars
    /\ UNCHANGED <<faultLimit, apiSb, apiBlob, apiTable, req, table, uploads, blobWrites, msgs>>
    /\ UNCHANGED workerVars

\* The entities earlier jobs can have left in the table: queued by the API, then
\* written by update_job_status, which sets error and result_blob and never
\* clears them.
StoredEntities(j) ==
    {e \in [status : {"queued", "processing", "completed", "failed"},
            error : {None, "OCR error"},
            result_blob : {None, ResultBlobName(j)}] :
        /\ e.status = "queued" => (e.error = None /\ e.result_blob = None)
        /\ e.status = "completed" => e.result_blob # None}

\* The API process after startup_event() in front of stores that hold the blob,
\* the record and (once saved) the result of one earlier job.
InitStored ==
    /\ faultLimit = MaxFaults
    /\ faults = NoFaults
    /\ apiSb = TRUE
    /\ StorageClients
    /\ req = [r \in Reqs |-> IdleReq]
    /\ got = NoGet
    /\ DirectStart
    /\ \E e \in StoredEntities(Sha256(1)) :
         /\ table = [j \in JobIds |-> IF j = Sha256(1) THEN e ELSE NoEntity]
         /\ results = IF e.result_blob # None THEN {e.result_blob} ELSE {}
    /\ uploads = {BlobName(Sha256(1), Jpg)}
    /\ blobWrites = [j \in JobIds |-> IF j = Sha256(1) THEN 1 ELSE 0]
    /\ msgs = <<>>
    /\ attempts = <<>>
    /\ poison = <<>>
    /\ running = TRUE
    /\ mainPc = "loop"
    /\ batch = <<>>
    /\ futures = {}
    /\ workQueue = <<>>
    /\ thread = [t \in ExecutorThreads |-> IdleThread]
    /\ pool = TESSERACT_POOL_SIZE
    /\ routed = {}
    /\ receiverOpen = TRUE

StoredNext ==
    \/ \E r \in Reqs :
         CreateOcrJob(r) \/ Lookup(r) \/ Upload(r) \/ Send(r) \/ Create(r)
    \/ \E j \in JobIds : GetJobResult(j)
    \/ DownloadBlob

\* The API serving submissions and result reads over the stores of earlier jobs.
SpecStored == InitStored /\ [][StoredNext]_vars

\* ------------------------- POST /generate-upload-url, POST /ocr/confirm-upload
\* generate_upload_url: 503 without the blob client; the HTTPException(400) of the
\* extension check is raised inside the try and leaves as a 500; otherwise
\* job_id = sha256(filename + "_" + utcnow) and a url to write the blob
\* job_id + extension.  No store is touched.
GenerateUploadUrl(g) ==
    /\ grant[g].pc = "idle"
    /\ \E f \in Filenames, now \in {t \in Times : t = clock \/ t = clock + 1} :
         /\ clock' = now
         /\ IF ~apiBlob
            THEN grant' = [grant EXCEPT ![g].pc = "refused", ![g].filename = f,
                                        ![g].code = 503]
            ELSE IF Lower(Splitext(f)) \notin ALLOWED_EXTENSIONS
            THEN grant' = [grant EXCEPT ![g].pc = "refused", ![g].filename = f,
                                        ![g].code = 500]
            ELSE grant' = [grant EXCEPT ![g].pc = "granted", ![g].filename = f,
                                        ![g].code = 200,
                                        ![g].job = Sha256Text(f, now)]
    /\ UNCHANGED <<confirm, direct, got, faultLimit, faults, apiSb, apiBlob, apiTable, req,
                   table, uploads, blobWrites, msgs>>
    /\ UNCHANGED workerVars

\* The client writes a body of its choice to the url it was given: the SAS token
\* grants write on that one blob name until it expires (10 minutes), nothing
\* makes it single-use and nothing checks the bytes.  The client can put again,
\* before or after it has called confirm_upload.
ClientPut(g) ==
    /\ grant[g].pc = "granted"
    /\ \E c \in Bodies :
         LET name == BlobName(grant[g].job, Lower(Splitext(grant[g].filename))) IN
         /\ direct' = {d \in direct : d.name # name} \cup {[name |-> name, body |-> c]}
         /\ uploads' = uploads \cup {name}
         /\ grant' = [grant EXCEPT ![g].body = c]
    /\ UNCHANGED <<clock, confirm, got, faultLimit, faults, apiSb, apiBlob, apiTable, req,
                   table, blobWrites, msgs>>
    /\ UNCHANGED workerVars

\* blob_properties.size of the blob under a name that is present.
SizeOf(name) == ContentLength((CHOOSE d \in direct : d.name = name).body)

\* confirm_upload returns or raises: call c is over with this answer.
Answer(cf, c, code, status) ==
    [cf EXCEPT ![c].pc = "done", ![c].code = code, ![c].status = status]

\* confirm_upload(job_id, filename), called with the job id and the file name of
\* an upload url, as often as the client likes and while earlier calls are still
\* being served (calls are interchangeable: they are numbered as they arrive);
\* up to its second remote call.
\* Without the blob client the verification is skipped, file_size is never
\* bound and building the message body raises: 500 (the table client is None
\* too).  With it, get_blob_properties: a missing blob answers 404, any other
\* failure 500, and the HTTPException(400)s of the size checks are raised inside the
\* inner try and leave as 500.  A verified call goes on to the first of lookup
\* and send that its clients allow; with neither it answers 202.
ConfirmUpload(c, g) ==
    /\ confirm[c].pc = "idle"
    /\ \A d \in 1..(c - 1) : confirm[d].pc # "idle"
    /\ grant[g].pc = "granted"
    /\ LET name == BlobName(grant[g].job, Lower(Splitext(grant[g].filename)))
           called == [confirm EXCEPT ![c].grant = g]
       IN IF ~apiBlob
          THEN /\ confirm' = Answer(called, c, 500, None)
               /\ UNCHANGED faults
          ELSE \E ok \in Outcomes :
                 /\ faults' = StoreCall(ok)
                 /\ confirm' =
                      IF ~ok THEN Answer(called, c, 500, None)
                      ELSE IF name \notin uploads THEN Answer(called, c, 404, None)
                      ELSE IF SizeOf(name) = 0 \/ SizeOf(name) > MAX_FILE_SIZE
                      THEN Answer(called, c, 500, None)
                      ELSE IF apiTable THEN [called EXCEPT ![c].pc = "lookup"]
                      ELSE IF apiSb THEN [called EXCEPT ![c].pc = "send"]
                      ELSE Answer(called, c, 202, "queued")
    /\ UNCHANGED <<clock, grant, direct, got, faultLimit, apiSb, apiBlob, apiTable, req,
                   table, uploads, blobWrites, msgs>>
    /\ UNCHANGED workerVars

\* The job id and the file name call c was made with.
JobOf(c) == grant[confirm[c].grant].job
FilenameOf(c) == grant[confirm[c].grant].filename

\* confirm_upload, "Check if job already exists": get_entity; an entity found is
\* answered 200 with its status; any exception (not found, or the store failing)
\* is passed over and the call goes on to the send, or to the create when the
\* broker client is None.
ConfirmLookup(c) ==
    /\ confirm[c].pc = "lookup"
    /\ \E ok \in Outcomes :
         /\ faults' = StoreCall(ok)
         /\ confirm' = IF EntityFound(table, JobOf(c), ok)
                       THEN Answer(confirm, c, 200, table[JobOf(c)].status)
                       ELSE [confirm EXCEPT ![c].pc = IF apiSb THEN "send" ELSE "create"]
    /\ UNCHANGED <<clock, grant, direct, got, faultLimit, apiSb, apiBlob, apiTable, req,
                   table, uploads, blobWrites, msgs>>
    /\ UNCHANGED workerVars

\* confirm_upload, "Send message to queue": sender.send_messages(message) with
\* message_id = job_id; a failure answers 500.  Then the create, or 202 at once
\* when the table client is None.
ConfirmSend(c) ==
    /\ confirm[c].pc = "send"
    /\ \E ok \in Outcomes :
         /\ faults' = BrokerCall(ok)
         /\ IF ok
            THEN /\ msgs' = Append(msgs, NewMessage(JobOf(c), Lower(Splitext(FilenameOf(c)))))
                 /\ attempts' = Append(attempts, 0)
                 /\ confirm' = IF apiTable THEN [confirm EXCEPT ![c].pc = "create"]
                               ELSE Answer(confirm, c, 202, "queued")
            ELSE /\ confirm' = Answer(confirm, c, 500, None)
                 /\ UNCHANGED <<msgs, attempts>>
    /\ UNCHANGED <<clock, grant, direct, got, faultLimit, apiSb, apiBlob, apiTable, req,
                   table, uploads, blobWrites>>
    /\ UNCHANGED <<poison, running, mainPc, batch, futures, workQueue, thread, pool,
                   routed, receiverOpen, results>>

\* confirm_upload, "Create table entry": create_entity takes effect when no
\* entity has the key; a failure (conflict or store fault) is logged only and
\* the call answers 202 queued.
ConfirmCreate(c) ==
    /\ confirm[c].pc = "create"
    /\ \E ok \in Outcomes :
         /\ faults' = StoreCall(ok)
         /\ table' = IF EntityInserted(table, JobOf(c), ok)
                     THEN [table EXCEPT ![JobOf(c)] = QueuedEntity]
                     ELSE table
    /\ confirm' = Answer(confirm, c, 202, "queued")
    /\ UNCHANGED <<clock, grant, direct, got, faultLimit, apiSb, apiBlob, apiTable, req,
                   uploads, blobWrites, msgs>>
    /\ UNCHANGED workerVars

\* The API process after startup_event(), the table keyed by the job ids either
\* ingestion path can assign.
InitDirect ==
    /\ faultLimit = MaxFaults
    /\ faults = NoFaults
    /\ apiSb \in BOOLEAN
    /\ StorageClients
    /\ req = [r \in Reqs |-> IdleReq]
    /\ got = NoGet
    /\ DirectStart
    /\ table = [j \in JobIds \cup DirectIds |-> NoEntity]
    /\ uploads = {}
    /\ blobWrites = [j \in JobIds |-> 0]
    /\ msgs = <<>>
    /\ attempts = <<>>
    /\ WorkerStart

DirectNext ==
    \/ \E g \in Grants : GenerateUploadUrl(g) \/ ClientPut(g)
    \/ \E c \in Calls :
         \/ \E g \in Grants : ConfirmUpload(c, g)
         \/ ConfirmLookup(c) \/ ConfirmSend(c) \/ ConfirmCreate(c)

\* The direct-upload exchange on its own: urls, puts and confirm_upload calls,
\* interleaved call by call; no worker runs.
SpecDirect == InitDirect /\ [][DirectNext]_vars

\* ------------------------------------------------------------ the worker
apiState == <<faultLimit, apiSb, apiBlob, apiTable, req, got, clock, grant, confirm, direct,
              blobWrites, uploads>>

\* What the ingestion endpoint can leave behind for one accepted job: the blob and
\* the queued entity; the blob only (the tolerated create_entity failure); or
\* neither (the API ran without its storage clients).
Leftovers == {"blob+entity", "blob", "nothing"}

\* The worker starts on a queue of 1..MaxMsgs messages sent by the API.  Two
\* messages may carry the same job id: two concurrent submits of one content
\* both pass the lookup and both send.
Queue(limit) ==
    /\ faultLimit = limit
    /\ faults = NoFaults
    /\ apiSb = TRUE
    /\ apiBlob = TRUE
    /\ apiTable = TRUE
    /\ req = [r \in Reqs |-> IdleReq]
    /\ got = NoGet
    /\ DirectStart
    /\ blobWrites = [j \in JobIds |-> 0]
    /\ \E n \in 1..MaxMsgs :
         \E jobs \in [1..n -> JobIds] :
           /\ jobs[1] = Sha256(1)   \* contents are interchangeable
           /\ msgs = [i \in 1..n |-> NewMessage(jobs[i], Jpg)]
           /\ attempts = [i \in 1..n |-> 0]
           /\ \E left \in [JobIds -> Leftovers] :
                /\ \A j \in JobIds :
                     (\A i \in 1..n : jobs[i] # j) => left[j] = "nothing"
                /\ table = [j \in JobIds |->
                              IF left[j] = "blob+entity" THEN QueuedEntity ELSE NoEntity]
                /\ uploads = {BlobName(j, Jpg) : j \in {k \in JobIds : left[k] # "nothing"}}
    /\ WorkerStart

\* A lease is current while the broker still holds the message locked for the
\* delivery the task was created from.
LeaseCurrent(task) ==
    /\ msgs[task.msg].state = "locked"
    /\ msgs[task.msg].dc = task.dc

\* The tasks the process holds: received, queued in the executor, or running.
Running == {thread[t].task : t \in {u \in Threads : thread[u].pc # "idle"}}
Queued == {workQueue[i] : i \in 1..Len(workQueue)}
Undispatched == {batch[i] : i \in 1..Len(batch)}
InFlight == Running \cup Queued \cup Undispatched

\* future.done(): the task was submitted and has left the executor.
FutureDone(f) == f \notin Running /\ f \notin Queued

\* The elements of a set of message indexes in increasing order.
RECURSIVE Ordered(_)
Ordered(S) ==
    IF S = {} THEN <<>>
    ELSE LET m == CHOOSE x \in S : \A y \in S : x <= y
         IN <<m>> \o Ordered(S \ {m})

\* worker/main.py imports ServiceBusClient, ServiceBusReceiver and
\* ServiceBusReceivedMessage only: the name ServiceBusMessage is undefined there.
ServiceBusMessageImported == FALSE

\* send_to_poison_queue, inside "with sb_client:": builds ServiceBusMessage(...)
\* and sends it; any exception (the NameError of the missing import, a broker
\* fault) is logged and swallowed.
SendToPoisonQueue(pq, m, error, ok) ==
    IF ServiceBusMessageImported /\ ok
    THEN Append(pq, [body |-> [job_id |-> msgs[m].job, blob_name |-> msgs[m].blob],
                     original_message_id |-> msgs[m].id, error |-> error,
                     failed_at |-> "utcnow", sequence_number |-> m])
    ELSE pq

\* A finally that puts a handle back whether or not one was taken.
FinallyUnguarded(th, p) == p + 1

\* A put that is skipped when the transform raised (a put after the return
\* rather than in a finally).
PutOnReturn(th, p) == IF th.holding /\ th.err = None THEN p + 1 ELSE p

\* A finally that puts the handle it took back twice.
FinallyTwice(th, p) == IF th.holding THEN p + 2 ELSE p

\* process_ocr's finally: the handle goes back to the pool if one was taken.
Finally(th, p) == IF th.holding THEN p + 1 ELSE p

\* A call on the receiver (receive_messages, complete_message, abandon_message):
\* on a receiver that was closed it raises before anything is sent; on an open
\* one the broker is called.
Settles == IF receiverOpen THEN Outcomes ELSE {FALSE}
SettleCall(ok) == IF receiverOpen THEN BrokerCall(ok) ELSE faults

\* signal_handler
SignalHandler ==
    /\ running
    /\ mainPc # "exited"
    /\ running' = FALSE
    /\ UNCHANGED <<faults, table, msgs, poison, mainPc, batch, futures, workQueue,
                   thread, pool, attempts, routed, receiverOpen, results>>
    /\ UNCHANGED apiState

\* while running: evaluated true; main() enters receiver.receive_messages(...).
MainLoop ==
    /\ mainPc = "loop"
    /\ running
    /\ mainPc' = "receive"
    /\ UNCHANGED <<faults, table, msgs, poison, running, batch, futures, workQueue,
                   thread, pool, attempts, routed, receiverOpen, results>>
    /\ UNCHANGED apiState

\* receiver.receive_messages(max_message_count=CONCURRENT_WORKERS, max_wait_time=5)
\* returns, whatever running has become during the wait: some of the available
\* messages, each now locked, and futures = []; or no message, and the loop
\* starts over.  When the call raises (the receiver is closed, or the broker
\* fails) nothing is locked: "except Exception" logs "Error in main loop",
\* sleeps 5 s and the loop starts over.
MainReceive ==
    /\ mainPc = "receive"
    /\ \E ok \in Settles :
         LET avail == {i \in 1..Len(msgs) : msgs[i].state = "avail"} IN
         /\ faults' = SettleCall(ok)
         /\ IF ~ok \/ avail = {}
            THEN /\ mainPc' = "loop"
                 /\ UNCHANGED <<msgs, batch, futures>>
            ELSE /\ \E S \in SUBSET avail :
                      /\ S # {}
                      /\ Cardinality(S) <= CONCURRENT_WORKERS
                      /\ msgs' = [i \in 1..Len(msgs) |->
                                    IF i \in S THEN [msgs[i] EXCEPT !.state = "locked"]
                                    ELSE msgs[i]]
                      /\ batch' = [k \in 1..Cardinality(S) |->
                                     [msg |-> Ordered(S)[k], dc |-> msgs[Ordered(S)[k]].dc]]
                 /\ futures' = {}
                 /\ mainPc' = "dispatch"
    /\ UNCHANGED <<table, poison, running, workQueue, thread, pool, attempts,
                   routed, receiverOpen, results>>
    /\ UNCHANGED apiState

\* for message in messages: if not running: break.  The loop is left when the
\* batch is through or running is False (what is left of the batch is dropped);
\* otherwise main() goes on to log the message and submit it.
MainDispatch ==
    /\ mainPc = "dispatch"
    /\ IF batch = <<>>
       THEN /\ mainPc' = "wait"
            /\ UNCHANGED batch
       ELSE IF ~running
       THEN /\ mainPc' = "wait"
            /\ batch' = <<>>
       ELSE /\ mainPc' = "submit"
            /\ UNCHANGED batch
    /\ UNCHANGED <<faults, table, msgs, poison, running, futures, workQueue, thread, pool,
                   attempts, routed, receiverOpen, results>>
    /\ UNCHANGED apiState

\* future = executor.submit(process_message, message); futures.append(future):
\* the message whose test "if not running" lies behind is submitted, whatever
\* running has become since (signal_handler runs between any two bytecodes of
\* the main thread).
MainSubmit ==
    /\ mainPc = "submit"
    /\ workQueue' = Append(workQueue, Head(batch))
    /\ futures' = futures \cup {Head(batch)}
    /\ batch' = Tail(batch)
    /\ mainPc' = "dispatch"
    /\ UNCHANGED <<faults, table, msgs, poison, running, thread, pool, attempts, routed,
                   receiverOpen, results>>
    /\ UNCHANGED apiState

\* as_completed(futures, timeout=300) runs out of futures: back to the loop head.
MainWait ==
    /\ mainPc = "wait"
    /\ \A f \in futures : FutureDone(f)
    /\ mainPc' = "loop"
    /\ futures' = {}
    /\ UNCHANGED <<faults, table, msgs, poison, running, batch, workQueue, thread, pool,
                   attempts, routed, receiverOpen, results>>
    /\ UNCHANGED apiState

\* as_completed raises TimeoutError after 300 s with a future still pending: the
\* loop logs "Some worker tasks timed out, continuing..." and goes on.  300 s is
\* the longest lock duration a Service Bus queue allows, so by then the lease of
\* every future still pending has run out.
MainTimeout ==
    /\ mainPc = "wait"
    /\ \E f \in futures : ~FutureDone(f)
    /\ \A f \in futures : ~FutureDone(f) => ~LeaseCurrent(f)
    /\ mainPc' = "loop"
    /\ futures' = {}
    /\ UNCHANGED <<faults, table, msgs, poison, running, batch, workQueue, thread, pool,
                   attempts, routed, receiverOpen, results>>
    /\ UNCHANGED apiState

\* while running: is false; the with-block's exit waits for the executor, then
\* receiver.close() and sb_client.close().
MainExit ==
    /\ \/ /\ mainPc = "loop"
          /\ ~running
          /\ mainPc' = "shutdown"
          /\ UNCHANGED receiverOpen
       \/ /\ mainPc = "shutdown"
          /\ workQueue = <<>>
          /\ \A t \in Threads : thread[t].pc = "idle"
          /\ mainPc' = "exited"
          /\ receiverOpen' = FALSE
    /\ UNCHANGED <<faults, table, msgs, poison, running, batch, futures, workQueue,
                   thread, pool, attempts, routed, results>>
    /\ UNCHANGED apiState

\* The broker's peek-lock: a lease nobody settles runs out and the message is
\* available again with its delivery count raised.  A lease running out while its
\* holder is still at work counts as an environment fault.
LockExpires(m) ==
    /\ msgs[m].state = "locked"
    /\ msgs[m].dc < MaxDeliveries
    /\ IF [msg |-> m, dc |-> msgs[m].dc] \in InFlight
       THEN Budget /\ faults' = [faults EXCEPT !.lease = @ + 1]
       ELSE faults' = faults
    /\ msgs' = [msgs EXCEPT ![m].state = "avail", ![m].dc = @ + 1]
    /\ UNCHANGED <<table, poison, running, mainPc, batch, futures, workQueue,
                   thread, pool, attempts, routed, receiverOpen, results>>
    /\ UNCHANGED apiState

InitWorker == Queue(MaxFaults)

\* ---------------------------------------------- process_message, step by step
Job(t) == msgs[thread[t].task.msg].job

\* The position of process_message after update_job_status(job_id, "failed",
\* ...): the branch on message.delivery_count >= MAX_RETRIES.
AfterFailed(task) == IF task.dc >= MAX_RETRIES THEN "poison" ELSE "abandon"

\* Where process_message goes on when an update_job_status call returns.
AfterUpdate(th) ==
    CASE th.pc = "processing_update" -> "ocr_get"
      [] th.pc = "completed_update" -> "complete"
      [] th.pc = "failed_update" -> AfterFailed(th.task)

\* An executor that starts a thread for every task that is submitted.
StartPerTask(t) ==
    /\ thread[t].pc = "idle"
    /\ \A u \in 1..(t - 1) : thread[u].pc # "idle"
    /\ workQueue # <<>>
    /\ workQueue' = Tail(workQueue)
    /\ attempts' = [attempts EXCEPT ![Head(workQueue).msg] = @ + 1]
    /\ thread' = [thread EXCEPT ![t] = [IdleThread EXCEPT !.pc = "processing",
                                                          !.task = Head(workQueue)]]
    /\ UNCHANGED <<faults, table, msgs, poison, running, mainPc, batch, futures, pool,
                   routed, receiverOpen, results>>
    /\ UNCHANGED apiState

\* An executor thread takes the next submitted task and enters process_message,
\* which parses the body and logs.  The executor has started at most max_workers
\* threads and each runs one task at a time (idle threads are interchangeable:
\* the lowest-numbered one takes the task).
Start(t) ==
    /\ thread[t].pc = "idle"
    /\ \A u \in 1..(t - 1) : thread[u].pc # "idle"
    /\ Cardinality({u \in ExecutorThreads : thread[u].pc # "idle"}) < CONCURRENT_WORKERS
    /\ workQueue # <<>>
    /\ workQueue' = Tail(workQueue)
    /\ attempts' = [attempts EXCEPT ![Head(workQueue).msg] = @ + 1]
    /\ thread' = [thread EXCEPT ![t] = [IdleThread EXCEPT !.pc = "processing",
                                                          !.task = Head(workQueue)]]
    /\ UNCHANGED <<faults, table, msgs, poison, running, mainPc, batch, futures, pool,
                   routed, receiverOpen, results>>
    /\ UNCHANGED apiState

\* update_job_status(job_id, "processing") reads the entity; without an entity
\* read it returns and process_message goes on to process_ocr.
WriteProcessing(t) ==
    /\ thread[t].pc = "processing"
    /\ \E ok \in Outcomes :
         LET entity == GetEntity(table, Job(t), ok) IN
         /\ faults' = StoreCall(ok)
         /\ thread' = IF entity = NoEntity
                      THEN [thread EXCEPT ![t].pc = "ocr_get"]
                      ELSE [thread EXCEPT ![t].pc = "processing_update",
                              ![t].entity = UpdateJobStatus(entity, "processing", None,
                                                            None)]
    /\ UNCHANGED <<table, msgs, poison, running, mainPc, batch, futures, workQueue,
                   pool, attempts, routed, receiverOpen, results>>
    /\ UNCHANGED apiState

\* table_client.update_entity(entity, mode="merge") of the update_job_status call
\* in progress: the copy read earlier is written back, whatever the table holds
\* by now; a failure is logged.  process_message goes on either way.
WriteBack(t) ==
    /\ thread[t].pc \in {"processing_update", "completed_update", "failed_update"}
    /\ \E ok \in Outcomes :
         /\ faults' = StoreCall(ok)
         /\ table' = UpdateEntity(table, Job(t), thread[t].entity, ok)
    /\ thread' = [thread EXCEPT ![t].pc = AfterUpdate(thread[t]),
                                ![t].entity = NoEntity]
    /\ UNCHANGED <<msgs, poison, running, mainPc, batch, futures, workQueue,
                   pool, attempts, routed, receiverOpen, results>>
    /\ UNCHANGED apiState

\* tesseract_pool.get(timeout=30): the caller takes a handle if the pool has one;
\* otherwise it blocks on the queue's condition ("ocr_wait").  A blocked caller
\* takes a handle once the pool has one and it is the next to get the queue's
\* lock, which is handed out in no particular order; or the pool stays empty for
\* 30 s and queue.Empty is raised, whose str() is "".
PoolGet(t) ==
    /\ thread[t].pc \in {"ocr_get", "ocr_wait"}
    /\ IF pool > 0
       THEN /\ pool' = pool - 1
            /\ thread' = [thread EXCEPT ![t].pc = "ocr_run", ![t].holding = TRUE]
       ELSE IF thread[t].pc = "ocr_get"
       THEN /\ pool' = pool
            /\ thread' = [thread EXCEPT ![t].pc = "ocr_wait"]
       ELSE /\ pool' = pool
            /\ thread' = [thread EXCEPT ![t].pc = "ocr_finally", ![t].err = ""]
    /\ UNCHANGED <<faults, table, msgs, poison, running, mainPc, batch, futures,
                   workQueue, attempts, routed, receiverOpen, results>>
    /\ UNCHANGED apiState

\* Download, size check, PIL, pytesseract: returns text or raises.  A missing
\* blob always raises.
Transform(t) ==
    /\ thread[t].pc = "ocr_run"
    /\ \E ok \in {TRUE, FALSE} :
         thread' = [thread EXCEPT
                      ![t].pc = "ocr_finally",
                      ![t].err = IF ok /\ msgs[thread[t].task.msg].blob \in uploads
                                 THEN None ELSE "OCR error"]
    /\ UNCHANGED <<faults, table, msgs, poison, running, mainPc, batch, futures,
                   workQueue, pool, attempts, routed, receiverOpen, results>>
    /\ UNCHANGED apiState

\* A process_ocr whose text goes straight to the completed write, unsaved.
PoolPutSkipsSave(t) ==
    /\ thread[t].pc = "ocr_finally"
    /\ pool' = Finally(thread[t], pool)
    /\ thread' = [thread EXCEPT ![t].holding = FALSE,
                                ![t].pc = IF thread[t].err = None THEN "completed"
                                          ELSE "fail"]
    /\ UNCHANGED <<faults, table, msgs, poison, running, mainPc, batch, futures,
                   workQueue, attempts, routed, receiverOpen, results>>
    /\ UNCHANGED apiState

\* A process_ocr that checks the handle in after a transform that returned and
\* keeps it when the transform raised.
PoolPutOnSuccess(t) ==
    /\ thread[t].pc = "ocr_finally"
    /\ pool' = IF thread[t].err = None THEN Finally(thread[t], pool) ELSE pool
    /\ thread' = [thread EXCEPT ![t].holding = (thread[t].holding /\ thread[t].err # None),
                                ![t].pc = IF thread[t].err = None THEN "save" ELSE "fail"]
    /\ UNCHANGED <<faults, table, msgs, poison, running, mainPc, batch, futures,
                   workQueue, attempts, routed, receiverOpen, results>>
    /\ UNCHANGED apiState

\* finally: tesseract_pool.put(tesseract_config) if one was taken; then the text
\* is returned or the exception propagates to process_message's handler.
PoolPut(t) ==
    /\ thread[t].pc = "ocr_finally"
    /\ pool' = Finally(thread[t], pool)
    /\ thread' = [thread EXCEPT ![t].holding = FALSE,
                                ![t].pc = IF thread[t].err = None THEN "save" ELSE "fail"]
    /\ UNCHANGED <<faults, table, msgs, poison, running, mainPc, batch, futures,
                   workQueue, attempts, routed, receiverOpen, results>>
    /\ UNCHANGED apiState

\* save_result: upload_blob(text, overwrite=True) or raise.
SaveResult(t) ==
    /\ thread[t].pc = "save"
    /\ \E ok \in Outcomes :
         /\ faults' = StoreCall(ok)
         /\ IF ok
            THEN /\ results' = results \cup {ResultBlobName(Job(t))}
                 /\ thread' = [thread EXCEPT ![t].pc = "completed"]
            ELSE /\ results' = results
                 /\ thread' = [thread EXCEPT ![t].pc = "fail", ![t].err = "save error"]
    /\ UNCHANGED <<table, msgs, poison, running, mainPc, batch, futures,
                   workQueue, pool, attempts, routed, receiverOpen>>
    /\ UNCHANGED apiState

\* A completed write whose failure propagates into the except branch.
WriteCompletedRaises(t) ==
    /\ thread[t].pc = "completed"
    /\ \E ok \in Outcomes :
         LET entity == GetEntity(table, Job(t), ok) IN
         /\ faults' = StoreCall(ok)
         /\ thread' = IF entity = NoEntity
                      THEN [thread EXCEPT ![t].pc = "fail", ![t].err = "status error"]
                      ELSE [thread EXCEPT ![t].pc = "completed_update",
                              ![t].entity = UpdateJobStatus(entity, "completed", None,
                                                            ResultBlobName(Job(t)))]
    /\ UNCHANGED <<table, msgs, poison, running, mainPc, batch, futures, workQueue,
                   pool, attempts, routed, receiverOpen, results>>
    /\ UNCHANGED apiState

\* update_job_status(job_id, "completed", result_blob=result_blob) reads the
\* entity; without an entity read it returns and the message is completed.
WriteCompleted(t) ==
    /\ thread[t].pc = "completed"
    /\ \E ok \in Outcomes :
         LET entity == GetEntity(table, Job(t), ok) IN
         /\ faults' = StoreCall(ok)
         /\ thread' = IF entity = NoEntity
                      THEN [thread EXCEPT ![t].pc = "complete"]
                      ELSE [thread EXCEPT ![t].pc = "completed_update",
                              ![t].entity = UpdateJobStatus(entity, "completed", None,
                                                            ResultBlobName(Job(t)))]
    /\ UNCHANGED <<table, msgs, poison, running, mainPc, batch, futures, workQueue,
                   pool, attempts, routed, receiverOpen, results>>
    /\ UNCHANGED apiState

\* receiver.complete_message(message) on the success path: the message leaves the
\* queue, or the call raises (receiver closed, broker fault, lock lost) into the
\* except branch.
Complete(t) ==
    /\ thread[t].pc = "complete"
    /\ \E ok \in Settles :
         /\ faults' = SettleCall(ok)
         /\ IF ok /\ LeaseCurrent(thread[t].task)
            THEN /\ msgs' = [msgs EXCEPT ![thread[t].task.msg].state = "gone"]
                 /\ thread' = [thread EXCEPT ![t] = IdleThread]
            ELSE /\ msgs' = msgs
                 /\ thread' = [thread EXCEPT ![t].pc = "fail",
                                             ![t].err = "settle error"]
    /\ UNCHANGED <<table, poison, running, mainPc, batch, futures, workQueue,
                   pool, attempts, routed, receiverOpen, results>>
    /\ UNCHANGED apiState

\* except Exception as e: error_msg = str(e); update_job_status(job_id, "failed",
\* error=error_msg) reads the entity; without an entity read it returns and the
\* branch on message.delivery_count >= MAX_RETRIES is taken.
WriteFailed(t) ==
    /\ thread[t].pc = "fail"
    /\ \E ok \in Outcomes :
         LET entity == GetEntity(table, Job(t), ok) IN
         /\ faults' = StoreCall(ok)
         /\ thread' = IF entity = NoEntity
                      THEN [thread EXCEPT ![t].pc = AfterFailed(thread[t].task)]
                      ELSE [thread EXCEPT ![t].pc = "failed_update",
                              ![t].entity = UpdateJobStatus(entity, "failed",
                                                            thread[t].err, None)]
    /\ UNCHANGED <<table, msgs, poison, running, mainPc, batch, futures, workQueue,
                   pool, attempts, routed, receiverOpen, results>>
    /\ UNCHANGED apiState

\* send_to_poison_queue(message, error_msg): the send reaches the broker only if
\* the message could be built.  Leaving "with sb_client:" calls sb_client.close(),
\* which shuts down every sender and receiver got from the client: the module's
\* receiver too.
Poison(t) ==
    /\ thread[t].pc = "poison"
    /\ \E ok \in IF ServiceBusMessageImported THEN Outcomes ELSE {TRUE} :
         /\ faults' = BrokerCall(ok)
         /\ poison' = SendToPoisonQueue(poison, thread[t].task.msg, thread[t].err, ok)
    /\ routed' = routed \cup {thread[t].task.msg}
    /\ receiverOpen' = FALSE
    /\ thread' = [thread EXCEPT ![t].pc = "poison_complete"]
    /\ UNCHANGED <<table, msgs, running, mainPc, batch, futures, workQueue,
                   pool, attempts, results>>
    /\ UNCHANGED apiState

\* try: receiver.complete_message(message) except: pass   (terminal path, after
\* send_to_poison_queue has returned)
PoisonComplete(t) ==
    /\ thread[t].pc = "poison_complete"
    /\ \E ok \in Settles :
         /\ faults' = SettleCall(ok)
         /\ msgs' = IF ok /\ LeaseCurrent(thread[t].task)
                    THEN [msgs EXCEPT ![thread[t].task.msg].state = "gone"]
                    ELSE msgs
    /\ thread' = [thread EXCEPT ![t] = IdleThread]
    /\ UNCHANGED <<table, poison, running, mainPc, batch, futures, workQueue,
                   pool, attempts, routed, receiverOpen, results>>
    /\ UNCHANGED apiState

\* try: receiver.abandon_message(message) except: pass   (retry path)
Abandon(t) ==
    /\ thread[t].pc = "abandon"
    /\ \E ok \in Settles :
         /\ faults' = SettleCall(ok)
         /\ msgs' = IF ok /\ LeaseCurrent(thread[t].task)
                    THEN [msgs EXCEPT ![thread[t].task.msg].state = "avail",
                                      ![thread[t].task.msg].dc = @ + 1]
                    ELSE msgs
    /\ thread' = [thread EXCEPT ![t] = IdleThread]
    /\ UNCHANGED <<table, poison, running, mainPc, batch, futures, workQueue,
                   pool, attempts, routed, receiverOpen, results>>
    /\ UNCHANGED apiState

ProcessMessage(t) ==
    \/ Start(t) \/ WriteProcessing(t) \/ WriteBack(t) \/ PoolGet(t) \/ Transform(t) \/ PoolPut(t)
    \/ SaveResult(t) \/ WriteCompleted(t) \/ Complete(t) \/ WriteFailed(t)
    \/ Poison(t) \/ PoisonComplete(t) \/ Abandon(t)

WorkerNext ==
    \/ SignalHandler
    \/ MainLoop
    \/ MainReceive
    \/ MainDispatch
    \/ MainSubmit
    \/ MainWait
    \/ MainTimeout
    \/ MainExit
    \/ \E m \in 1..Len(msgs) : LockExpires(m)
    \/ \E t \in ExecutorThreads : ProcessMessage(t)

\* The queue consumer on a queue the ingestion endpoint has filled.
SpecWorker == InitWorker /\ [][WorkerNext]_vars

\* The worker on a full queue of normally accepted jobs (blob and entity written)
\* and stores and broker that do not fail (the transform still may),
\* with every executor thread that can take a step eventually taking one: a
\* started process_message keeps running and the calls it makes return.
InitPool ==
    /\ Queue(0)
    /\ Len(msgs) = MaxMsgs
    /\ \A i \in 1..Len(msgs) : table[msgs[i].job] # NoEntity

\* With no lease running out under a task, as_completed never times out.
PoolNext ==
    \/ SignalHandler
    \/ MainLoop
    \/ MainReceive
    \/ MainDispatch
    \/ MainSubmit
    \/ MainWait
    \/ MainExit
    \/ \E m \in 1..Len(msgs) : LockExpires(m)
    \/ \E t \in ExecutorThreads : ProcessMessage(t)

SpecPoolFair ==
    /\ InitPool
    /\ [][PoolNext]_vars
    /\ \A t \in Threads : WF_vars(ProcessMessage(t))


\* The same worker, main() too always taking its next step when it has one.
MainSteady ==
    MainLoop \/ MainReceive \/ MainDispatch \/ MainSubmit \/ MainWait \/ MainExit

SpecLiveFair ==
    /\ InitPool
    /\ [][PoolNext]_vars
    /\ WF_vars(MainSteady)
    /\ \A t \in Threads : WF_vars(ProcessMessage(t))

\* The worker with one message in the queue, main() always taking its next step
\* when it has one, and no such promise for the executor threads: a call made by
\* process_message (a download, the OCR) may never return.
InitDrain ==
    /\ Queue(MaxFaults)
    /\ Len(msgs) = 1

Main ==
    \/ MainLoop \/ MainReceive \/ MainDispatch \/ MainSubmit
    \/ MainWait \/ MainTimeout \/ MainExit

SpecDrainFair ==
    /\ InitDrain
    /\ [][WorkerNext]_vars
    /\ WF_vars(Main)

\* The API in front of the stores of one earlier job (see InitStored) whose
\* message is in the work queue once more: never delivered while the record is
\* still queued, otherwise delivered before and available again.
InitResult ==
    /\ faultLimit = MaxFaults
    /\ faults = NoFaults
    /\ apiSb = TRUE
    /\ StorageClients
    /\ req = [r \in Reqs |-> IdleReq]
    /\ got = NoGet
    /\ DirectStart
    /\ \E e \in StoredEntities(Sha256(1)) :
         /\ table = [j \in JobIds |-> IF j = Sha256(1) THEN e ELSE NoEntity]
         /\ results = IF e.result_blob # None THEN {e.result_blob} ELSE {}
         /\ msgs = << [NewMessage(Sha256(1), Jpg) EXCEPT
                          !.dc = IF e.status = "queued" THEN 0 ELSE 1] >>
    /\ uploads = {BlobName(Sha256(1), Jpg)}
    /\ blobWrites = [j \in JobIds |-> IF j = Sha256(1) THEN 1 ELSE 0]
    /\ attempts = <<0>>
    /\ poison = <<>>
    /\ running = TRUE
    /\ mainPc = "loop"
    /\ batch = <<>>
    /\ futures = {}
    /\ workQueue = <<>>
    /\ thread = [t \in ExecutorThreads |-> IdleThread]
    /\ pool = TESSERACT_POOL_SIZE
    /\ routed = {}
    /\ receiverOpen = TRUE

ResultNext ==
    \/ \E j \in JobIds : GetJobResult(j)
    \/ DownloadBlob
    \/ WorkerNext

\* The API serving result reads while the worker processes the job's message.
SpecResult == InitResult /\ [][ResultNext]_vars

\* ------------------------------------------------------------------ claims
Entity(j) == table[j]
Holders == {t \in Threads : thread[t].holding}
Published(m) == {k \in 1..Len(poison) : poison[k].sequence_number = m}

\* C1: a JobRecord's status only ever moves queued -> processing ->
\* completed | failed; no write takes it from failed or completed back to
\* processing, or from completed to failed.  Stated for one message and the
\* runs in which no store call, broker call or lease has failed, where the claim
\* is narrowest.
Advance == {<<"queued", "processing">>, <<"processing", "completed">>,
            <<"processing", "failed">>}
C1_StatusOnlyAdvances ==
    [][\A j \in JobIds :
         (/\ faults' = NoFaults
          /\ Len(msgs) = 1
          /\ table'[j].status # table[j].status)
            => <<table[j].status, table'[j].status>> \in Advance]_vars

\* C2: stores and broker available, one message whose every attempt fails: once
\* the worker is through with the message on the terminal path it has been
\* processed exactly MAX_RETRIES + 1 times, the poison queue holds exactly one
\* record of it, and the message has left the work queue.
C2_RetryBoundThenPoison ==
    \A m \in 1..Len(msgs) :
        (/\ faults = NoFaults
         /\ Len(msgs) = 1
         /\ m \in routed
         /\ \A t \in Threads : thread[t].pc = "idle")
        => /\ attempts[m] = MAX_RETRIES + 1
           /\ Cardinality(Published(m)) = 1
           /\ msgs[m].state = "gone"

\* The messages of the work queue that carry job j.
Enqueued(j) == {i \in 1..Len(msgs) : msgs[i].job = j}

\* Request r has returned and each of its collaborator calls took effect: the
\* lookup answered not-found, the blob was written, the message was sent and the
\* entity was created.
AllSucceeded(r) ==
    /\ req[r].pc = "done"
    /\ ~req[r].lookupFailed
    /\ req[r].uploaded /\ req[r].sent /\ req[r].created

\* C3: POST /ocr called twice in sequence with identical content, every
\* collaborator call of the first succeeding: one record exists, the blob was
\* written once, one message was enqueued, and the second call returns the
\* stored status having written no blob, sent no message and created no record.
C3_SecondSubmitIdempotent ==
    \A r1, r2 \in Reqs :
        (/\ r1 # r2
         /\ AllSucceeded(r1)
         /\ req[r2].pc = "done"
         /\ r1 \in req[r2].after
         /\ req[r2].content = req[r1].content)
        => /\ table[req[r1].job] # NoEntity
           /\ blobWrites[req[r1].job] = 1
           /\ Cardinality(Enqueued(req[r1].job)) = 1
           /\ req[r2].code = 200
           /\ req[r2].job_id = req[r1].job_id
           /\ req[r2].status = table[req[r1].job].status
           /\ ~req[r2].uploaded /\ ~req[r2].sent /\ ~req[r2].created

\* C4: two POST /ocr calls with the same (valid) content, their steps interleaved in any
\* order, the storage and broker clients configured and no collaborator call
\* failing: exactly one of the two creates the record and both are answered the
\* same job id.
C4_ConcurrentSubmitOneRecord ==
    \A r1, r2 \in Reqs :
        (/\ r1 # r2
         /\ apiBlob /\ apiTable /\ apiSb
         /\ faults = NoFaults
         /\ req[r1].pc = "done" /\ req[r2].pc = "done"
         /\ req[r1].code # 400 /\ req[r2].code # 400
         /\ req[r1].content = req[r2].content)
        => /\ Cardinality({r \in Reqs : req[r].job = req[r1].job /\ req[r].created}) = 1
           /\ table[req[r1].job] = QueuedEntity
           /\ req[r1].job_id = req[r2].job_id
           /\ req[r1].job_id = Sha256(req[r1].content)

\* C4 witness: a true race: both calls passed the lookup before either created
\* the record, so both uploaded, both sent and both were answered 202.
C4_Witness ==
    /\ apiBlob /\ apiTable /\ apiSb /\ faults = NoFaults
    /\ \E r1, r2 \in Reqs :
         /\ r1 # r2
         /\ req[r1].pc = "done" /\ req[r2].pc = "done"
         /\ req[r1].content = req[r2].content
         /\ req[r1].code = 202 /\ req[r2].code = 202
         /\ req[r1].created /\ ~req[r2].created

\* C5: at most TESSERACT_POOL_SIZE handles are checked out at any instant, with
\* more process_ocr attempts under way than there are handles.
C5_PoolBound == Cardinality(Holders) <= TESSERACT_POOL_SIZE

\* C5 witness: more threads inside process_ocr than handles, every handle out.
InProcessOcr ==
    {t \in Threads : thread[t].pc \in {"ocr_get", "ocr_wait", "ocr_run", "ocr_finally"}}
C5_Witness ==
    /\ Cardinality(InProcessOcr) > TESSERACT_POOL_SIZE
    /\ Cardinality(Holders) = TESSERACT_POOL_SIZE

\* C6: a handle a thread has taken is given up again by that thread, however the
\* transform ends, and a handle given up is back in the pool: none is lost.
C6_HandleReturned ==
    /\ \A t \in Threads : thread[t].holding ~> ~thread[t].holding
    /\ [](pool + Cardinality(Holders) = TESSERACT_POOL_SIZE)

\* C6 witness: a transform has raised while holding a handle.
C6_Witness ==
    \E t \in Threads :
        thread[t].holding /\ thread[t].pc = "ocr_finally" /\ thread[t].err # None

\* C7: the messages received and not yet finished by process_message never
\* outnumber the worker slots.
C7_Backpressure == Cardinality(InFlight) <= CONCURRENT_WORKERS

\* C9: result_blob is set if and only if status = completed.  Stated for a queue
\* of one message.
C9_ResultIffCompleted ==
    \A j \in JobIds :
        Len(msgs) = 1
        => (Truthy(Entity(j).result_blob) <=> Entity(j).status = "completed")

\* C10: if error is set then status = failed.  Stated for a queue of one message
\* and the runs in which no call has failed.
C10_ErrorOnlyWhenFailed ==
    \A j \in JobIds :
        (Len(msgs) = 1 /\ faults = NoFaults /\ Truthy(Entity(j).error))
        => Entity(j).status = "failed"

\* C14: a job whose create_entity failed in the API (blob written, message sent,
\* no record) heals its own record: once the worker is through with its message,
\* the job has a record in status completed or failed.  Stated for one message
\* and the runs in which no call has failed.
C14_WorkerHealsMissingRecord ==
    \A m \in 1..Len(msgs) :
        (/\ faults = NoFaults
         /\ Len(msgs) = 1
         /\ msgs[m].blob \in uploads
         /\ msgs[m].state = "gone")
        => Entity(msgs[m].job).status \in {"completed", "failed"}

\* C17: the API serves no submission while a connection string was missing at
\* startup: a request is answered 202 only with the broker client and the storage
\* clients in place.
C17_NoDegradedService ==
    \A r \in Reqs : req[r].code = 202 => (apiSb /\ apiBlob /\ apiTable)

\* C15: once running is False, main() starts no receive_messages call and
\* submits nothing more to the executor, and the receiver and the client are
\* closed only with the executor drained: no task queued, every thread back from
\* process_message.  The last part is stated for the runs in which no store
\* call, broker call or lease has failed.
C15_StopDrains ==
    [][~running =>
         /\ (mainPc' = "receive" => mainPc = "receive")
         /\ Len(workQueue') <= Len(workQueue)
         /\ futures' \subseteq futures
         /\ (receiverOpen /\ ~receiverOpen' /\ faults' = NoFaults) =>
               /\ workQueue' = <<>>
               /\ \A t \in Threads : thread'[t].pc = "idle"]_vars

\* C20: a run that failed with delivery_count < MAX_RETRIES has written status
\* failed with the error detail when it abandons the lease, and has neither
\* published the message to the poison queue nor completed it.  Stated for
\* messages of distinct jobs whose records exist, in runs where no store call,
\* broker call or lease has failed.
C20_RetryPathAbandons ==
    \A t \in Threads :
        (/\ faults = NoFaults
         /\ thread[t].pc = "abandon"
         /\ \A i, k \in 1..Len(msgs) : msgs[i].job = msgs[k].job => i = k
         /\ Entity(Job(t)) # NoEntity)
        => /\ thread[t].task.dc < MAX_RETRIES
           /\ Entity(Job(t)).status = "failed"
           /\ Truthy(Entity(Job(t)).error)
           /\ thread[t].task.msg \notin routed
           /\ Published(thread[t].task.msg) = {}
           /\ msgs[thread[t].task.msg].state # "gone"

\* C16: after the stop signal the process exits even when a worker never
\* returns: once the scheduling loop has left (all workers returned, or the
\* as_completed timeout elapsed), main() reaches the end of its cleanup.
C16_ExitsAfterDrainTimeout ==
    (~running /\ mainPc = "shutdown") ~> (mainPc = "exited")

\* C12: a POST /ocr whose file is empty, larger than MAX_FILE_SIZE or has an
\* extension outside ALLOWED_EXTENSIONS is answered 400 at once, and neither the
\* blob container, the queue nor the table changes because of it, then or later.
C12_InvalidInputNoEffect ==
    [][\A r \in Reqs :
         /\ (/\ req[r].pc = "idle" /\ req'[r].pc # "idle"
             /\ \/ ContentLength(req'[r].body) = 0
                \/ ContentLength(req'[r].body) > MAX_FILE_SIZE
                \/ Lower(Splitext(req'[r].filename)) \notin ALLOWED_EXTENSIONS)
            => /\ req'[r].pc = "done" /\ req'[r].code = 400
               /\ uploads' = uploads /\ blobWrites' = blobWrites
               /\ msgs' = msgs /\ table' = table
         /\ req[r].code = 400 => req'[r] = req[r]]_vars

\* C12 witness: one request was accepted and enqueued, another was answered 400
\* for an oversized body.
C12_Witness ==
    \E r, q \in Reqs :
        /\ req[r].code = 400
        /\ ContentLength(req[r].body) > MAX_FILE_SIZE
        /\ req[q].code = 202 /\ req[q].sent

\* C13: a POST /ocr whose lookup returns an entity answers 200 with the job id
\* and the stored status, and writes no blob, sends no message and leaves the
\* table as it is.
C13_FoundReturnsStored ==
    [][\A r \in Reqs :
         (/\ req[r].pc = "lookup" /\ req'[r] # req[r]
          /\ apiTable
          /\ faults' = faults
          /\ table[req[r].job] # NoEntity)
         => /\ req'[r].pc = "done" /\ req'[r].code = 200
            /\ req'[r].job_id = Sha256(req[r].content)
            /\ req'[r].status = table[req[r].job].status
            /\ ~req'[r].uploaded /\ ~req'[r].sent /\ ~req'[r].created
            /\ uploads' = uploads /\ blobWrites' = blobWrites
            /\ msgs' = msgs /\ table' = table]_vars

\* C13 witness: a submit answered 200 for a job that an earlier run completed.
C13_Witness ==
    \E r \in Reqs :
        /\ req[r].code = 200
        /\ req[r].status = "completed"
        /\ table[req[r].job].status = "completed"

\* C18: GET /ocr/{job_id}/result returns the text only for a record that is
\* completed with a result_blob; for any other record it answers an error code
\* and carries no text.  The record is the one the handler's get_entity
\* returned: the worker may have rewritten it by the time the answer leaves.
C18_ResultOnlyWhenCompleted ==
    [][(got' # got /\ got'.pc = "idle") =>
         LET e == got'.entity IN
         /\ got'.code = 200 =>
               /\ e.status = "completed" /\ Truthy(e.result_blob)
               /\ got'.text = TextOf(e.result_blob)
         /\ ~(e.status = "completed" /\ Truthy(e.result_blob)) =>
               /\ got'.code \in {400, 404, 500, 503}
               /\ got'.text = None
         /\ got'.code # 200 => got'.text = None
         /\ got'.job = got.job \/ got.pc = "idle"
         /\ got.pc = "download" => got'.entity = got.entity]_vars

\* C18 witness: the text of a job was returned whose record was completed when
\* the handler read it and was put back to processing by the worker before
\* download_blob returned.
C18_Witness ==
    /\ got.pc = "idle" /\ got.code = 200
    /\ got.entity.status = "completed"
    /\ got.text = TextOf(got.entity.result_blob)
    /\ table[got.job].status = "processing"

\* C11: two uploads of identical bytes are given the same job id; here two direct
\* uploads under the same file name, both accepted with 202 by a fully
\* configured API, no collaborator call having failed.
C11_SameBytesSameJob ==
    \A g1, g2 \in Grants :
        (/\ faults = NoFaults /\ apiSb /\ apiBlob /\ apiTable
         /\ \E c \in Calls : confirm[c].grant = g1 /\ confirm[c].code = 202
         /\ \E c \in Calls : confirm[c].grant = g2 /\ confirm[c].code = 202
         /\ grant[g1].filename = grant[g2].filename
         /\ grant[g1].body = grant[g2].body)
        => grant[g1].job = grant[g2].job

\* C21: a complete_message or abandon_message call that raises is only logged: the
\* run ends there, nothing else is done for the message.  Stated for the
\* complete_message of the success path: when the broker fails that call, the
\* thread returns from process_message.
C21_SettleFailureOnlyLogged ==
    [][\A t \in Threads :
         (/\ thread[t].pc = "complete" /\ thread'[t] # thread[t]
          /\ faults'.broker = faults.broker + 1)
         => thread'[t] = IdleThread]_vars

\* C22: when the write of status completed fails (get_entity or update_entity
\* raises, or the job has no entity) after the transform and the save succeeded,
\* nothing is written and the run goes on to complete_message with no error set;
\* that call completes the lease (the message leaves the queue and the run
\* returns) unless it raises itself, on a closed receiver, a broker failure or
\* a lease that has run out; and neither step writes failed, abandons the
\* message or hands it to the poison queue.
C22_CompletedWriteFailureTolerated ==
    [][\A t \in Threads :
         /\ (/\ thread[t].pc \in {"completed", "completed_update"}
             /\ thread'[t] # thread[t]
             /\ (faults'.store = faults.store + 1 \/ table[Job(t)] = NoEntity))
            => /\ thread'[t].pc = "complete" /\ thread'[t].err = None
               /\ table' = table /\ msgs' = msgs /\ poison' = poison
               /\ routed' = routed
         /\ (/\ thread[t].pc = "complete"
             /\ thread'[t] # thread[t])
            => /\ table' = table /\ poison' = poison /\ routed' = routed
               /\ (receiverOpen /\ faults' = faults /\ LeaseCurrent(thread[t].task))
                     => /\ msgs' = [msgs EXCEPT ![thread[t].task.msg].state = "gone"]
                        /\ thread'[t] = IdleThread
               /\ thread'[t] # IdleThread
                     => /\ thread'[t].pc = "fail" /\ msgs' = msgs
                        /\ \/ ~receiverOpen
                           \/ faults'.broker = faults.broker + 1
                           \/ ~LeaseCurrent(thread[t].task)]_vars

\* The only run of the only message has completed the lease and returned: the
\* message has left the queue and its result is saved, while the record still
\* says processing, the completed write having been lost to a store failure.
C22_Witness ==
    /\ Len(msgs) = 1 /\ attempts[1] = 1
    /\ msgs[1].state = "gone"
    /\ \A t \in Threads : thread[t].pc = "idle"
    /\ faults = [store |-> 1, broker |-> 0, lease |-> 0]
    /\ routed = {}
    /\ ResultBlobName(msgs[1].job) \in results
    /\ table[msgs[1].job].status = "processing"

\* C23: every write the worker makes to a job's entity is made by a run whose
\* lease on that job's message is current at the time of the write.  Stated
\* for the writes of an outcome, completed or failed.
C23_WritesUnderCurrentLease ==
    [][\A j \in JobIds :
         (table'[j] # table[j] /\ table'[j].status \in {"completed", "failed"})
         => \E t \in Threads :
              /\ thread'[t] # thread[t]
              /\ thread'[t].task.msg # 0
              /\ msgs[thread'[t].task.msg].job = j
              /\ LeaseCurrent(thread'[t].task)]_vars

\* C24: create_ocr_job writes the blob, then sends the message, then creates the
\* entity, and answers 500 at the first of the blob write and the send that
\* fails: a request has sent only after its blob was written (the write is
\* skipped, not failed, when the API runs without its blob client), has
\* created only after both, and every queued entity has its blob in the uploads
\* container.
C24_QueuedHasContent ==
    /\ \A r \in Reqs :
         /\ req[r].sent => (req[r].uploaded \/ ~apiBlob)
         /\ req[r].created => (req[r].uploaded /\ (req[r].sent \/ ~apiSb))
    /\ \A j \in JobIds :
         table[j].status = "queued"
         => \E ext \in ALLOWED_EXTENSIONS : BlobName(j, ext) \in uploads

\* A request has gone through all three steps and left the queued entity.
C24_Witness ==
    \E r \in Reqs :
        /\ req[r].uploaded /\ req[r].sent /\ req[r].created
        /\ table[req[r].job].status = "queued"
        /\ BlobName(req[r].job, req[r].ext) \in uploads

\* The positions of process_message's success path, each with the one it follows.
SuccessOrder ==
    {<<"idle", "processing">>, <<"processing", "processing_update">>,
     <<"processing_update", "ocr_get">>, <<"processing", "ocr_get">>,
     <<"ocr_get", "ocr_wait">>, <<"ocr_get", "ocr_run">>,
     <<"ocr_wait", "ocr_run">>, <<"ocr_finally", "save">>,
     <<"save", "completed">>, <<"completed", "completed_update">>,
     <<"completed_update", "complete">>, <<"completed", "complete">>}

\* C25: a run goes through its steps in the order processing write, handle
\* check-out, transform, handle check-in, result save, completed write,
\* complete_message: each step is reached from the one before it only, the handle
\* is back in the pool when the save begins, the result is stored when the
\* completed write begins, and a run that met no error removes its message from
\* the queue only at complete_message, with the result stored.
C25_StepsInOrder ==
    [][\A t \in Threads :
         /\ (/\ thread'[t].pc # thread[t].pc
             /\ thread'[t].pc \in {"processing", "processing_update", "ocr_get",
                                   "ocr_wait", "ocr_run",
                                   "save", "completed", "completed_update",
                                   "complete"})
            => <<thread[t].pc, thread'[t].pc>> \in SuccessOrder
         /\ (thread[t].pc = "ocr_run" /\ thread'[t].pc # "ocr_run")
            => thread'[t].pc = "ocr_finally"
         /\ (thread[t].pc \in {"ocr_get", "ocr_wait"} /\ thread'[t].pc = "ocr_run")
            => (thread'[t].holding /\ pool' = pool - 1)
         /\ (thread[t].pc = "ocr_finally" /\ thread'[t].pc = "save")
            => (~thread'[t].holding /\ pool' = pool + 1)
         /\ (thread[t].pc = "save" /\ thread'[t].pc = "completed")
            => ResultBlobName(Job(t)) \in results'
         /\ (thread[t].pc = "completed" /\ thread'[t].pc # "completed")
            => ResultBlobName(Job(t)) \in results
         /\ (thread[t].pc = "completed_update" /\ thread'[t].pc # "completed_update")
            => /\ thread[t].entity.status = "completed"
               /\ thread[t].entity.result_blob = ResultBlobName(Job(t))
         /\ (/\ thread[t].pc # "idle" /\ thread'[t] # thread[t]
             /\ thread[t].err = None
             /\ msgs[thread[t].task.msg].state # "gone"
             /\ msgs'[thread[t].task.msg].state = "gone")
            => (thread[t].pc = "complete" /\ ResultBlobName(Job(t)) \in results)
      ]_vars

\* A message has left the queue by the success path: result stored, entity
\* completed with the reference to it.
C25_Witness ==
    \E m \in 1..Len(msgs) :
        /\ msgs[m].state = "gone" /\ routed = {} /\ faults = NoFaults
        /\ ResultBlobName(msgs[m].job) \in results
        /\ table[msgs[m].job].status = "completed"
        /\ table[msgs[m].job].result_blob = ResultBlobName(msgs[m].job)

\* C26: a thread holds an engine handle only between the get and the end of the
\* finally of process_ocr: it holds none when it writes completed or failed,
\* when it settles the message and when it is back in the executor.
C26_HandleOnlyInProcessOcr ==
    \A t \in Threads : thread[t].holding => thread[t].pc \in {"ocr_run", "ocr_finally"}

\* A thread whose transform raised with a handle taken is about to write failed,
\* the handle back in the pool.
C26_Witness ==
    \E t \in Threads :
        /\ thread[t].pc = "fail" /\ thread[t].err = "OCR error"
        /\ ~thread[t].holding
        /\ pool = TESSERACT_POOL_SIZE

\* C27: a run whose tesseract_pool.get timed out is handled by the failure
\* policy: abandoned while delivery_count < MAX_RETRIES, otherwise published to
\* the poison queue.  Stated after the call of send_to_poison_queue, in runs where
\* no store call, broker call or lease has failed.
C27_PoolTimeoutRetriedOrPoisoned ==
    \A t \in Threads :
        (/\ faults = NoFaults
         /\ thread[t].pc = "poison_complete"
         /\ thread[t].err = "")
        => Published(thread[t].task.msg) # {}

\* C28: a failure in the processing of one message stays in that run.  The loop
\* is left only when running is False, and a step of a run that has met an
\* error, or meets one, changes no other thread, nothing of main()'s state, not
\* the running flag and, in the runs in which no store call, broker call or
\* lease has failed, not the receiver the loop leases with.
C28_FailureStaysInItsRun ==
    [][/\ (mainPc' # mainPc /\ mainPc' = "shutdown") => ~running
       /\ \A t \in Threads :
            (/\ thread'[t] # thread[t]
             /\ \/ thread[t].pc \in {"fail", "poison", "poison_complete", "abandon"}
                \/ thread[t].err # None
                \/ thread'[t].err # None)
            => /\ \A u \in Threads \ {t} : thread'[u] = thread[u]
               /\ mainPc' = mainPc /\ running' = running
               /\ batch' = batch /\ futures' = futures /\ workQueue' = workQueue
               /\ faults' = NoFaults => receiverOpen' = receiverOpen
      ]_vars

\* C29: the loop can lease again as soon as one executor thread is free: when
\* one future of the batch is done, another is still being run under a current
\* lease, an executor thread is idle, a message is available and running is
\* True, main() can go on to its next receive_messages call.
C29_LeasesWhenSlotFree ==
    (/\ running /\ faults = NoFaults
     /\ mainPc = "wait"
     /\ \E f \in futures : FutureDone(f)
     /\ \E f \in futures : f \in Running /\ LeaseCurrent(f)
     /\ workQueue = <<>>
     /\ \E t \in Threads : thread[t].pc = "idle"
     /\ \E i \in 1..Len(msgs) : msgs[i].state = "avail")
    => ENABLED (MainLoop \/ MainReceive)

\* C30: at most CONCURRENT_WORKERS runs of process_message are under way at any
\* time, however many tasks have been submitted to the executor: of the threads
\* the process could start, no more than that many are ever inside
\* process_message.
C30_AtMostWRuns ==
    Cardinality({t \in DOMAIN thread : thread[t].pc # "idle"}) <= CONCURRENT_WORKERS

\* Every executor thread is at work and a further submitted task waits in the
\* executor's queue.
C30_Witness ==
    /\ Cardinality({t \in DOMAIN thread : thread[t].pc # "idle"}) = CONCURRENT_WORKERS
    /\ workQueue # <<>>

\* C31: handles are given out in the order the callers began to wait: a thread
\* that has not yet been blocked in tesseract_pool.get never takes a handle
\* while another thread is blocked in it.
C31_FifoCheckout ==
    [][\A t \in Threads :
         (thread[t].pc = "ocr_get" /\ thread'[t].pc = "ocr_run")
         => \A u \in Threads : thread[u].pc # "ocr_wait"]_vars

\* C32: at most one message is sent per job id.  Stated for an API with all its
\* clients and two POST /ocr calls of one content of which the second arrives
\* after the first was answered: if the first has sent a message, the second
\* sends none.
C32_OneMessagePerJob ==
    \A r1, r2 \in Reqs :
        (/\ apiSb /\ apiBlob /\ apiTable
         /\ r1 \in req[r2].after
         /\ req[r1].job = req[r2].job
         /\ req[r1].sent)
        => ~req[r2].sent

\* C33: a POST /ocr answered 202 queued has sent the message for its job.  Stated
\* for an API that has its storage clients, so that the job is recorded as well.
C33_QueuedMeansSent ==
    \A r \in Reqs :
        (/\ faults = NoFaults /\ apiBlob /\ apiTable
         /\ req[r].code = 202 /\ req[r].status = "queued")
        => req[r].sent

\* C34: while the worker is not told to stop, every job that is queued is
\* eventually completed, or failed with its message published to the poison
\* queue.
C34_QueuedEventuallySettles ==
    \A m \in 1..MaxMsgs :
        (table[msgs[m].job].status = "queued")
        ~> (\/ ~running
            \/ table[msgs[m].job].status = "completed"
            \/ (table[msgs[m].job].status = "failed" /\ Published(m) # {}))

\* C35: a message main() has received is held by the process as a task (waiting
\* to be submitted, queued in the executor, or being run) for as long as its
\* lock lasts, unless it was settled.  Stated for runs in which no store call,
\* broker call or lease has failed.
C35_LeasedIsDispatchedOrSettled ==
    faults = NoFaults
    => \A m \in 1..Len(msgs) :
         msgs[m].state = "locked" => [msg |-> m, dc |-> msgs[m].dc] \in InFlight

\* C36: confirm_upload answers 400 when the uploaded blob is empty or larger than
\* MAX_FILE_SIZE, sends no message and writes no record.  Stated for the step
\* in which a call verifies the blob, the API having its blob client and
\* get_blob_properties not failing.
C36_BadSizeAnswers400 ==
    [][\A c \in Calls, g \in Grants :
         LET name == BlobName(grant[g].job, Lower(Splitext(grant[g].filename))) IN
         (/\ confirm[c].pc = "idle" /\ confirm'[c].pc # "idle"
          /\ confirm'[c].grant = g
          /\ apiBlob /\ faults' = faults
          /\ name \in uploads
          /\ (SizeOf(name) = 0 \/ SizeOf(name) > MAX_FILE_SIZE))
         => /\ confirm'[c].pc = "done" /\ confirm'[c].code = 400
            /\ msgs' = msgs /\ table' = table]_vars

\* C37: before and after every step the handles in tesseract_pool and the
\* handles held by threads number TESSERACT_POOL_SIZE together, the pool never
\* holds more than that, and the finally of a process_ocr whose get timed out
\* leaves the pool as it is.
C37_HandlesConserved ==
    [][/\ pool + Cardinality(Holders) = TESSERACT_POOL_SIZE
       /\ pool' + Cardinality(Holders') = TESSERACT_POOL_SIZE
       /\ pool' >= 0 /\ pool' <= TESSERACT_POOL_SIZE
       /\ \A t \in Threads :
            (/\ thread[t].pc = "ocr_finally" /\ ~thread[t].holding
             /\ thread'[t] # thread[t])
            => pool' = pool
      ]_vars

\* A get has timed out and its run is in the except branch, while another
\* thread still holds the handle.
C37_Witness ==
    /\ \E t \in Threads : thread[t].pc = "fail" /\ thread[t].err = ""
    /\ Holders # {}
    /\ pool + Cardinality(Holders) = TESSERACT_POOL_SIZE

====
